---- MODULE Spec2Model ----
(***************************************************************************)
(* A model of the market data aggregation and caching layer of main.py:    *)
(* the snapshot cache get_market_movers keeps in market_movers_cache, the  *)
(* per-symbol fan-out fetch, the ranking of the fetched quotes, the        *)
(* /api/market-movers route, and get_historical_data with its synthetic    *)
(* fallback.                                                               *)
(*                                                                         *)
(* Representation.                                                         *)
(*  - Python's None: a value that may be None is a sequence of length at   *)
(*    most one, <<>> for None and <<v>> for v.                             *)
(*  - Money is counted in cents, so round(price, 2) and round(change, 2)   *)
(*    do not change a value.                                               *)
(*  - The string f"{change_percent:+.2f}%" is the signed number of         *)
(*    hundredths of a percent it prints: "+1.23%" is 123, "-0.50%" is -50. *)
(*  - Time is in seconds; a calendar date is a day number, day 0 being a   *)
(*    Monday, so that d % 7 is datetime.weekday().                         *)
(***************************************************************************)
EXTENDS Integers, Sequences, FiniteSets, TLC

(***************************************************************************)
(* Program constants.                                                      *)
(***************************************************************************)
CACHE_DURATION == 300

ApiTopN == 20

AllSymbols ==
  <<"AAPL", "MSFT", "TSLA", "NFLX", "GOOGL", "AMZN", "META", "NVDA", "INTC",
    "AMD", "PYPL", "ADBE", "CRM", "UBER", "LYFT", "SPOT", "SHOP", "SQ", "ZM",
    "DOCU", "MRNA", "RIOT", "AMC", "GME", "PLTR", "PLUG", "BBBY", "WISH",
    "CLOV", "SPCE">>

(***************************************************************************)
(* Bounds of the model.                                                    *)
(***************************************************************************)
\* The universe is cut to its first NumSyms symbols.
NumSyms == 3

\* Direct callers of get_market_movers pass n in 1..MaxN; the route passes 20.
MaxN == 2

\* The clock advances at most MaxTicks times.
MaxTicks == 1

\* At most MaxCalls calls of get_market_movers are started.
MaxCalls == 3

universe == SubSeq(AllSymbols, 1, NumSyms)

Threads == {"t1", "t2"}

\* time.time() when the process starts serving.
StartTimes == {1000}

\* The amounts by which the clock advances between two steps: one second,
\* and the cache's time to live (the youngest age at which a snapshot is
\* Stale).
TickSteps == {1, CACHE_DURATION}

(***************************************************************************)
(* The upstream quote source: what yf.Ticker(sym).info does for one        *)
(* symbol.  Either the access raises, or it yields a bag of fields in      *)
(* which regularMarketPrice and previousClose may be absent.               *)
(***************************************************************************)
PrevCloses == {100000}

Prices == {98000, 100001, 100004, 103000}

Raises == [raises |-> TRUE, price |-> <<>>, prev_close |-> <<>>]

Outcomes ==
  {Raises}
    \cup {[raises |-> FALSE, price |-> <<>>, prev_close |-> <<c>>] : c \in PrevCloses}
    \cup {[raises |-> FALSE, price |-> <<p>>, prev_close |-> <<>>] : p \in {100001}}
    \cup {[raises |-> FALSE, price |-> <<p>>, prev_close |-> <<c>>] :
            p \in Prices, c \in PrevCloses}

\* The answers of a quote source that is up and steady: every symbol has the
\* same usable quote.
SteadyOutcomes ==
  {[raises |-> FALSE, price |-> <<p>>, prev_close |-> <<c>>] :
     p \in {103000}, c \in PrevCloses}

Min(a, b) == IF a <= b THEN a ELSE b

(***************************************************************************)
(* get_market_movers: the pure parts.                                      *)
(***************************************************************************)
\* Python's truth value of info.get(...): None and 0 are false.
Truthy(opt) == opt # <<>> /\ opt[1] # 0

\* if price and prev_close:
Usable(o) == Truthy(o.price) /\ Truthy(o.prev_close)

\* f"{(price - prev_close) / prev_close * 100:+.2f}%": the percentage rounded
\* to the nearest hundredth.
FormatPct(price, prev_close) ==
  (2 * (price - prev_close) * 10000 + prev_close) \div (2 * prev_close)

\* The dictionary appended to movers (the fields the ranking and the claims
\* read: name, volume, market_cap and sector are carried along unchanged).
MakeMover(sym, o) ==
  [symbol |-> sym,
   price |-> o.price[1],
   change |-> o.price[1] - o.prev_close[1],
   change_percent |-> FormatPct(o.price[1], o.prev_close[1])]

\* AppendQuote with the except branch appending an error-shaped record, as
\* fetch_quote returns one.
AppendQuoteOrPlaceholder(m, sym, o) ==
  IF o.raises
    THEN Append(m, [symbol |-> sym, price |-> 0, change |-> 0, change_percent |-> 0])
    ELSE IF Usable(o) THEN Append(m, MakeMover(sym, o)) ELSE m

\* One iteration of the loop over the universe: the try block appends the
\* quote when it is usable; an exception is printed and the loop goes on.
AppendQuote(m, sym, o) ==
  IF ~o.raises /\ Usable(o) THEN Append(m, MakeMover(sym, o)) ELSE m

\* key=lambda x: float(x["change_percent"].replace('%','')): the number the
\* formatted string spells, in hundredths.
SortKey(x) == x.change_percent

\* sorted(s, key=SortKey, reverse=rev): Python's sort is stable, and with
\* reverse=True equal elements keep their original order too.
RECURSIVE SortedBy(_, _)
SortedBy(s, rev) ==
  IF s = <<>> THEN <<>>
  ELSE LET rest == SortedBy(SubSeq(s, 1, Len(s) - 1), rev)
           x == s[Len(s)]
           k == Cardinality({j \in 1 .. Len(rest) :
                              IF rev THEN SortKey(rest[j]) >= SortKey(x)
                                     ELSE SortKey(rest[j]) <= SortKey(x)})
       IN SubSeq(rest, 1, k) \o <<x>> \o SubSeq(rest, k + 1, Len(rest))

\* s[:n]
Slice(s, n) == SubSeq(s, 1, Min(n, Len(s)))

\* Gainers as the ascending list read backwards: sorted(...)[::-1][:n].
GainersBackwards(m, n) ==
  LET s == SortedBy(m, FALSE)
  IN Slice([j \in 1 .. Len(s) |-> s[Len(s) + 1 - j]], n)

Gainers(m, n) == Slice(SortedBy(m, TRUE), n)

\* Losers taken from the wrong end of the ascending list: sorted(...)[-n:].
LosersTail(m, n) ==
  LET s == SortedBy(m, FALSE)
  IN SubSeq(s, Len(s) - Min(n, Len(s)) + 1, Len(s))

Losers(m, n) == Slice(SortedBy(m, FALSE), n)

\* result = {"gainers": gainers, "losers": losers}
Rank(m, n) == [gainers |-> Gainers(m, n), losers |-> Losers(m, n)]

\* IsFresh with the comparison turned around.
IsFreshInverted(c, ct) == c.data # <<>> /\ ct - c.timestamp > CACHE_DURATION

\* IsFresh taking a snapshot with no quotes for no snapshot.
IsFreshNonEmpty(c, ct) ==
  /\ c.data # <<>>
  /\ c.data[1].gainers # <<>> \/ c.data[1].losers # <<>>
  /\ ct - c.timestamp < CACHE_DURATION

\* market_movers_cache["data"] and (current_time - timestamp < CACHE_DURATION)
IsFresh(c, ct) == c.data # <<>> /\ ct - c.timestamp < CACHE_DURATION

\* CachedResult cut to the caller's n: data["gainers"][:n], data["losers"][:n].
CachedResultSliced(c, k) ==
  [gainers |-> Slice(c.data[1].gainers, k), losers |-> Slice(c.data[1].losers, k)]

\* What the cached path returns: market_movers_cache["data"], whatever n is.
CachedResult(c, k) == c.data[1]

\* The value stored in market_movers_cache["timestamp"]: the time read at the
\* start of the call, not the time of the store.
StoredTimestamp(ct, clock) == ct

(***************************************************************************)
(* State.                                                                  *)
(*                                                                         *)
(* cache is market_movers_cache.  Every request is served on a thread of   *)
(* its own (the development server is threaded), so each thread t has the  *)
(* locals of its call: ct (current_time), n, i (the index of sym in the    *)
(* universe), movers, result, and ret, the value the call returned.        *)
(* History variables, which no action reads to decide what to do:          *)
(*   rid[t]        the number of t's call (calls counts the calls started),*)
(*   writer        the calls that wrote cache.data and cache.timestamp,    *)
(*   survivors[t]  the symbols whose fetch neither raised nor lacked a     *)
(*                 field in t's pass over the universe,                    *)
(*   hit[t], tag[t] whether t's call returned from the cache, and the call *)
(*                 that had written the data it returned.                  *)
(***************************************************************************)
VARIABLES cache, writer, now, ticks, calls,
          pc, rid, ct, n, api, i, movers, survivors, result, ret, hit, tag, resp,
          hpc, hreq, hresp, hdata, hroute

locals == <<rid, ct, n, api, i, movers, survivors, result, ret, hit, tag, resp>>

\* The state of get_market_movers and its route.
cvars == <<cache, writer, now, ticks, calls, pc, locals>>

\* The state of one request for a historical series: where it is (hpc), the
\* symbol asked for and the date of the day (hreq), what the upstream time
\* series source did (hresp), what get_historical_data returned (hdata) and
\* what the route answered (hroute).
hvars == <<hpc, hreq, hresp, hdata, hroute>>

\* The state of one request for a quote: where it is (qpc), the operation
\* and the symbol asked for (qreq), what the upstream quote source did
\* (qinfo), what get_stock_data or fetch_quote returned (qout) and what the
\* route answered (qroute).
VARIABLES qpc, qreq, qinfo, qout, qroute

qvars == <<qpc, qreq, qinfo, qout, qroute>>

\* The state of the loop that generates the prices of a synthetic series:
\* where it is (spc), the number of points appended (si), base_price in
\* thousandths of a dollar (sbase) and the point appended last, None before
\* the first (spoint).
VARIABLES spc, si, sbase, spoint

svars == <<spc, si, sbase, spoint>>

vars == <<cvars, hvars, qvars, svars>>

\* Did the symbol's fetch succeed, in the words of the specification: it did
\* not raise and it has both a price and a previous close.
Survives(o) == ~o.raises /\ o.price # <<>> /\ o.prev_close # <<>>

InitHist ==
  /\ hpc = "idle"
  /\ hreq = [symbol |-> "", today |-> 0]
  /\ hresp = [kind |-> "none", series |-> {}, malformed |-> {}]
  /\ hdata = <<>>
  /\ hroute = [status |-> 0, historical_data |-> <<>>]

InitQuote ==
  /\ qpc = "idle"
  /\ qreq = [op |-> "", symbol |-> ""]
  /\ qinfo = <<>>
  /\ qout = <<>>
  /\ qroute = [status |-> 0, body |-> <<>>]

InitSynth ==
  /\ spc = "idle"
  /\ si = 0
  /\ sbase = 0
  /\ spoint = <<>>

Init ==
  /\ InitHist
  /\ InitQuote
  /\ InitSynth
  /\ cache = [data |-> <<>>, timestamp |-> 0]
  /\ writer = [data |-> 0, timestamp |-> 0]
  /\ now \in StartTimes
  /\ ticks = 0
  /\ calls = 0
  /\ pc = [t \in Threads |-> "idle"]
  /\ rid = [t \in Threads |-> 0]
  /\ ct = [t \in Threads |-> 0]
  /\ n = [t \in Threads |-> 0]
  /\ api = [t \in Threads |-> FALSE]
  /\ i = [t \in Threads |-> 0]
  /\ movers = [t \in Threads |-> <<>>]
  /\ survivors = [t \in Threads |-> {}]
  /\ result = [t \in Threads |-> <<>>]
  /\ ret = [t \in Threads |-> <<>>]
  /\ hit = [t \in Threads |-> FALSE]
  /\ tag = [t \in Threads |-> 0]
  /\ resp = [t \in Threads |-> <<>>]

\* The clock advances.
Tick(d) ==
  /\ ticks < MaxTicks
  /\ ticks' = ticks + 1
  /\ now' = now + d
  /\ UNCHANGED <<cache, writer, calls, pc, locals>>
  /\ UNCHANGED <<hvars, qvars, svars>>

\* A call starts: current_time = time.time() (line 149).
Enter(t, k, viaRoute) ==
  /\ pc[t] \in {"idle", "done"}
  /\ calls < MaxCalls
  /\ calls' = calls + 1
  /\ rid' = [rid EXCEPT ![t] = calls + 1]
  /\ ct' = [ct EXCEPT ![t] = now]
  /\ n' = [n EXCEPT ![t] = k]
  /\ api' = [api EXCEPT ![t] = viaRoute]
  /\ i' = [i EXCEPT ![t] = 0]
  /\ movers' = [movers EXCEPT ![t] = <<>>]
  /\ survivors' = [survivors EXCEPT ![t] = {}]
  /\ result' = [result EXCEPT ![t] = <<>>]
  /\ ret' = [ret EXCEPT ![t] = <<>>]
  /\ hit' = [hit EXCEPT ![t] = FALSE]
  /\ tag' = [tag EXCEPT ![t] = 0]
  /\ resp' = [resp EXCEPT ![t] = <<>>]
  /\ pc' = [pc EXCEPT ![t] = "check"]
  /\ UNCHANGED <<cache, writer, now, ticks>>
  /\ UNCHANGED <<hvars, qvars, svars>>

\* get_market_movers(n) called directly.
Call(t, k) == Enter(t, k, FALSE)

\* GET /api/market-movers: get_market_movers(n=20).
RouteCall(t) == Enter(t, ApiTopN, TRUE)

\* Line 152, the test of the cache.  The two reads of the condition are one
\* step: data, once set, is never None again, so reading data earlier than
\* the timestamp decides nothing the later read would not.
CheckCache(t) ==
  /\ pc[t] = "check"
  /\ IF IsFresh(cache, ct[t])
       THEN /\ pc' = [pc EXCEPT ![t] = "ret_cached"]
            /\ i' = i
       ELSE /\ pc' = [pc EXCEPT ![t] = "fetch"]
            /\ i' = [i EXCEPT ![t] = 1]
  /\ UNCHANGED <<cache, writer, now, ticks, calls,
                 rid, ct, n, api, movers, survivors, result, ret, hit, tag, resp>>
  /\ UNCHANGED <<hvars, qvars, svars>>

\* Where a call goes when get_market_movers has returned.
AfterReturn(t) == IF api[t] THEN "route" ELSE "done"

\* Line 153: return market_movers_cache["data"], read again.
ReturnCached(t) ==
  /\ pc[t] = "ret_cached"
  /\ ret' = [ret EXCEPT ![t] = <<CachedResult(cache, n[t])>>]
  /\ hit' = [hit EXCEPT ![t] = TRUE]
  /\ tag' = [tag EXCEPT ![t] = writer.data]
  /\ pc' = [pc EXCEPT ![t] = AfterReturn(t)]
  /\ ct' = [ct EXCEPT ![t] = 0]
  /\ rid' = [rid EXCEPT ![t] = 0]
  /\ UNCHANGED <<cache, writer, now, ticks, calls,
                 n, api, i, movers, survivors, result, resp>>
  /\ UNCHANGED <<hvars, qvars, svars>>

\* Lines 161-186, one symbol of the universe: the only place a call waits.
FetchSym(t, o) ==
  /\ pc[t] = "fetch"
  /\ movers' = [movers EXCEPT ![t] = AppendQuote(@, universe[i[t]], o)]
  /\ survivors' = [survivors EXCEPT
                     ![t] = IF Survives(o) THEN @ \cup {universe[i[t]]} ELSE @]
  /\ i' = [i EXCEPT ![t] = @ + 1]
  /\ pc' = [pc EXCEPT ![t] = IF i[t] = NumSyms THEN "rank" ELSE "fetch"]
  /\ UNCHANGED <<cache, writer, now, ticks, calls,
                 rid, ct, n, api, result, ret, hit, tag, resp>>
  /\ UNCHANGED <<hvars, qvars, svars>>

\* Lines 189-192.
RankMovers(t) ==
  /\ pc[t] = "rank"
  /\ result' = [result EXCEPT ![t] = <<Rank(movers[t], n[t])>>]
  /\ i' = [i EXCEPT ![t] = 0]
  /\ pc' = [pc EXCEPT ![t] = "store_data"]
  /\ UNCHANGED <<cache, writer, now, ticks, calls,
                 rid, ct, n, api, movers, survivors, ret, hit, tag, resp>>
  /\ UNCHANGED <<hvars, qvars, svars>>

\* Line 195: market_movers_cache["data"] = result.
StoreData(t) ==
  /\ pc[t] = "store_data"
  /\ cache' = [cache EXCEPT !.data = result[t]]
  /\ writer' = [writer EXCEPT !.data = rid[t]]
  /\ movers' = [movers EXCEPT ![t] = <<>>]
  /\ survivors' = [survivors EXCEPT ![t] = {}]
  /\ pc' = [pc EXCEPT ![t] = "store_ts"]
  /\ UNCHANGED <<now, ticks, calls, rid, ct, n, api, i, result, ret, hit, tag, resp>>
  /\ UNCHANGED <<hvars, qvars, svars>>

\* Line 196: market_movers_cache["timestamp"] = current_time.
StoreTimestamp(t) ==
  /\ pc[t] = "store_ts"
  /\ cache' = [cache EXCEPT !.timestamp = StoredTimestamp(ct[t], now)]
  /\ writer' = [writer EXCEPT !.timestamp = rid[t]]
  /\ ct' = [ct EXCEPT ![t] = 0]
  /\ pc' = [pc EXCEPT ![t] = "return"]
  /\ UNCHANGED <<now, ticks, calls, rid, n, api, i, movers, survivors, result, ret, hit, tag, resp>>
  /\ UNCHANGED <<hvars, qvars, svars>>

\* Line 198: return result.
Return(t) ==
  /\ pc[t] = "return"
  /\ ret' = [ret EXCEPT ![t] = result[t]]
  /\ hit' = [hit EXCEPT ![t] = FALSE]
  /\ tag' = [tag EXCEPT ![t] = rid[t]]
  /\ result' = [result EXCEPT ![t] = <<>>]
  /\ rid' = [rid EXCEPT ![t] = 0]
  /\ pc' = [pc EXCEPT ![t] = AfterReturn(t)]
  /\ UNCHANGED <<cache, writer, now, ticks, calls,
                 ct, n, api, i, movers, survivors, resp>>
  /\ UNCHANGED <<hvars, qvars, svars>>

\* Lines 538-541: the route wraps the snapshot with the time of the response.
ApiRespond(t) ==
  /\ pc[t] = "route"
  /\ resp' = [resp EXCEPT ![t] = <<[market_movers |-> ret[t][1], timestamp |-> now]>>]
  /\ pc' = [pc EXCEPT ![t] = "done"]
  /\ UNCHANGED <<cache, writer, now, ticks, calls,
                 rid, ct, n, api, i, movers, survivors, result, ret, hit, tag>>
  /\ UNCHANGED <<hvars, qvars, svars>>

\* The steps of one call that are the same in every specification.
Step(t) ==
  \/ CheckCache(t)
  \/ ReturnCached(t)
  \/ RankMovers(t)
  \/ StoreData(t)
  \/ StoreTimestamp(t)
  \/ Return(t)
  \/ ApiRespond(t)

\* Concurrent requests, each on its own thread, while time passes.  The
\* quote source is steady here: what the cache does with the clock and with
\* other threads does not depend on what the quotes are, and SpecRank runs
\* the fetch and the ranking against every answer of the quote source.
Next ==
  \/ \E d \in TickSteps : Tick(d)
  \/ \E t \in Threads : \E k \in 1 .. MaxN : Call(t, k)
  \/ \E t \in Threads : RouteCall(t)
  \/ \E t \in Threads : \E o \in SteadyOutcomes : FetchSym(t, o)
  \/ \E t \in Threads : Step(t)

Spec == Init /\ [][Next]_vars

\* One request at a time, against every answer of the quote source.
NextRank ==
  \/ \E k \in 1 .. MaxN : Call("t1", k)
  \/ RouteCall("t1")
  \/ \E o \in Outcomes : FetchSym("t1", o)
  \/ Step("t1")

SpecRank == Init /\ [][NextRank]_vars

\* One request at a time while time passes, against a quote source that
\* raises or answers symbol by symbol.
NextSeq ==
  \/ \E d \in TickSteps : Tick(d)
  \/ \E k \in 1 .. MaxN : Call("t1", k)
  \/ RouteCall("t1")
  \/ \E o \in {Raises} \cup SteadyOutcomes : FetchSym("t1", o)
  \/ Step("t1")

SpecSeq == Init /\ [][NextSeq]_vars

(***************************************************************************)
(* get_historical_data and its route.                                      *)
(*                                                                         *)
(* The upstream time series source, requests.get(...).json(), does one of: *)
(*   "error"    the request raises (no connection, a bad status line),     *)
(*   "timeout"  the request raises requests.Timeout after timeout=10,      *)
(*   "badjson"  response.json() raises,                                    *)
(*   "nokey"    it yields an object without "Time Series (Daily)",         *)
(*   "series"   it yields an object with it: a map whose keys are the      *)
(*              dates in series, the entries of the dates in malformed     *)
(*              lacking a field or holding a non-number.                   *)
(* A point of a series is written down by its date; the prices of the     *)
(* synthetic points are generated step by step under SpecSynth.            *)
(***************************************************************************)
SeriesLength == 126

SyntheticPoints == 126

LookbackDays == 180

\* datetime.weekday(): Monday is 0, Saturday 5, Sunday 6.
Weekday(d) == d % 7

\* while current_date.weekday() >= 5: current_date += timedelta(days=1)
SkipWeekend(d) ==
  IF Weekday(d) = 5 THEN d + 2 ELSE IF Weekday(d) = 6 THEN d + 1 ELSE d

\* The dates of k iterations of the loop of lines 382-406 entered with
\* current_date = cur: an iteration skips the weekend, takes the date and
\* moves to the next day.  The k iterations are run as two halves, the
\* second entered where the first left current_date.
RECURSIVE SynthDates(_, _)
SynthDates(cur, k) ==
  IF k = 0 THEN <<>>
  ELSE IF k = 1 THEN <<SkipWeekend(cur)>>
  ELSE LET first == SynthDates(cur, k \div 2)
       IN first \o SynthDates(first[Len(first)] + 1, k - k \div 2)

\* The demo series with the loop entered SyntheticPoints days back, the
\* number of points taken for the number of days: timedelta(days=126).
SyntheticSeriesShortLookback(today) ==
  LET dates == SynthDates(today - SyntheticPoints, SyntheticPoints)
  IN [j \in 1 .. Len(dates) |-> [date |-> dates[j]]]

\* Lines 378-408: the demo series generated on the day today.
SyntheticSeries(today) ==
  LET dates == SynthDates(today - LookbackDays, SyntheticPoints)
  IN [j \in 1 .. Len(dates) |-> [date |-> dates[j]]]

\* sorted(time_series.keys())[:k]: the k oldest dates, oldest first.
OldestFirst(D, k) ==
  LET earlier == [x \in D |-> Cardinality({y \in D : y < x})]
  IN [j \in 1 .. Min(k, Cardinality(D)) |-> CHOOSE x \in D : earlier[x] = j - 1]

\* sorted(time_series.keys(), reverse=True)[:k]: the date at position j is
\* the one with j - 1 later dates.
NewestFirst(D, k) ==
  LET later == [x \in D |-> Cardinality({y \in D : y > x})]
  IN [j \in 1 .. Min(k, Cardinality(D)) |-> CHOOSE x \in D : later[x] = j - 1]

\* reversed(s)
Reversed(s) == [j \in 1 .. Len(s) |-> s[Len(s) + 1 - j]]

\* The real series with the except inside the loop: the points converted
\* before the first entry that raises.
RealSeriesPartial(answer) ==
  LET sel == Reversed(NewestFirst(answer.series, SeriesLength))
      bad == {j \in 1 .. Len(sel) : sel[j] \in answer.malformed}
      stop == IF bad = {} THEN Len(sel) + 1 ELSE CHOOSE j \in bad : \A q \in bad : j <= q
  IN <<[j \in 1 .. stop - 1 |-> [date |-> sel[j]]]>>

\* Lines 356-372: the real series, or None when float() or int() or a missing
\* field of a selected entry raises (the except of line 410 returns None).
RealSeries(answer) ==
  LET sel == Reversed(NewestFirst(answer.series, SeriesLength))
  IN IF \E j \in 1 .. Len(sel) : sel[j] \in answer.malformed
       THEN <<>>
       ELSE <<[j \in 1 .. Len(sel) |-> [date |-> sel[j]]]>>

\* What get_historical_data returns: None is <<>>, a list L is <<L>>.
HistoricalData(answer, today) ==
  IF answer.kind \in {"error", "timeout", "badjson"} THEN <<>>
  ELSE IF answer.kind = "series" THEN RealSeries(answer)
  ELSE <<SyntheticSeries(today)>>

\* Lines 560-568: the route answers 400 when the data is None or empty.
RouteResponse(data) ==
  IF data = <<>> \/ data[1] = <<>>
    THEN [status |-> 400, historical_data |-> <<>>]
    ELSE [status |-> 200, historical_data |-> data[1]]

\* The inputs of a request.
HistSymbols == {"AAPL", "ZZZZINVALID"}

\* The days on which a request is made: one of each weekday.
Todays == 700 .. 706

SeriesSizes == {0, 1, 126, 127}

\* The k most recent days up to last, trading days only or all of them.
RecentDays(last, k, tradingOnly) ==
  LET Listed(d) == ~tradingOnly \/ Weekday(d) < 5
  IN {d \in (last - 2 * k - 7) .. last :
        Listed(d) /\ Cardinality({e \in d .. last : Listed(e)}) <= k}

Oldest(D) == CHOOSE x \in D : \A y \in D : x <= y

Newest(D) == CHOOSE x \in D : \A y \in D : y <= x

\* What the upstream may do on the day today.
Responses(today) ==
  {[kind |-> k, series |-> {}, malformed |-> {}] :
     k \in {"error", "timeout", "badjson", "nokey"}}
    \cup UNION {
           LET D == RecentDays(today, size, tr)
           IN {[kind |-> "series", series |-> D, malformed |-> bad] :
                 bad \in {{}} \cup (IF D = {} THEN {} ELSE {{Oldest(D)}, {Newest(D)}})}
           : size \in SeriesSizes, tr \in BOOLEAN}

\* Lines 345-353: the request is sent and the upstream answers.
HRequest(sym, today, answer) ==
  /\ hpc = "idle"
  /\ hpc' = "requested"
  /\ hreq' = [symbol |-> sym, today |-> today]
  /\ hresp' = answer
  /\ hdata' = <<>>
  /\ hroute' = [status |-> 0, historical_data |-> <<>>]
  /\ UNCHANGED <<cvars, qvars, svars>>

\* Lines 355-412: get_historical_data returns.
HReturn ==
  /\ hpc = "requested"
  /\ hpc' = "returned"
  /\ hdata' = HistoricalData(hresp, hreq.today)
  /\ UNCHANGED <<hreq, hresp, hroute>>
  /\ UNCHANGED <<cvars, qvars, svars>>

\* Lines 560-568: the route answers.
HRespond ==
  /\ hpc = "returned"
  /\ hpc' = "responded"
  /\ hroute' = RouteResponse(hdata)
  /\ UNCHANGED <<hreq, hresp, hdata>>
  /\ UNCHANGED <<cvars, qvars, svars>>

\* Requests for historical series, one after the other.
NextHist ==
  \/ \E sym \in HistSymbols : \E today \in Todays : \E answer \in Responses(today) :
       HRequest(sym, today, answer)
  \/ HReturn
  \/ HRespond

SpecHist == Init /\ [][NextHist]_vars

(***************************************************************************)
(* get_stock_data, fetch_quote and their routes.                           *)
(*                                                                         *)
(* The upstream quote source for one symbol: yf.Ticker(sym) raises, or     *)
(* history("1d") yields the last close (absent when the frame is empty)    *)
(* and info yields a bag of fields, each of which may be absent.  An       *)
(* absent field is <<>>, a number v is <<v>>.  Prices and changes are in   *)
(* cents, a percentage from upstream in thousandths of a percent and a     *)
(* formatted one in hundredths.  name, sector and the dates of the records *)
(* are not part of the model.                                              *)
(***************************************************************************)
ClosePrices == {0, 15000}

CurrentPrices == {15000}

MarketChanges == {181}

MarketChangePercents == {1234}

Volumes == {2000000}

MarketCaps == {3000000}

Opt(S) == {<<>>} \cup {<<v>> : v \in S}

InfoFields ==
  {"close", "currentPrice", "regularMarketChange", "regularMarketChangePercent",
   "volume", "marketCap"}

\* yf.Ticker(sym) or one of its accessors raises.
QuoteRaises ==
  [raises |-> TRUE, close |-> <<>>, currentPrice |-> <<>>,
   regularMarketChange |-> <<>>, regularMarketChangePercent |-> <<>>,
   volume |-> <<>>, marketCap |-> <<>>]

\* What the upstream quote source may do.
Payloads ==
  {QuoteRaises}
    \cup [raises : {FALSE}, close : Opt(ClosePrices), currentPrice : Opt(CurrentPrices),
          regularMarketChange : Opt(MarketChanges),
          regularMarketChangePercent : Opt(MarketChangePercents),
          volume : Opt(Volumes), marketCap : Opt(MarketCaps)]

QuoteSymbols == {"aapl", "ZZZZINVALID"}

\* str.upper()
Upper(sym) == IF sym = "aapl" THEN "AAPL" ELSE sym

\* info.get(field, default)
Get(info, field, default) ==
  IF info[field] = <<>> THEN <<default>> ELSE info[field]

\* f"{x:.2f}": thousandths rounded to the nearest hundredth.
FormatTwoDecimals(x) == (x + 5) \div 10

\* Lines 29-44.
get_stock_data(symbol, info) ==
  IF info.raises THEN [error |-> "exception"]
  ELSE [symbol |-> Upper(symbol),
        price |-> Get(info, "currentPrice", 0),
        change |-> Get(info, "regularMarketChange", 0),
        change_percent |->
          <<FormatTwoDecimals(Get(info, "regularMarketChangePercent", 0)[1])>>,
        volume |-> Get(info, "volume", 0)]

\* Lines 455-476.
fetch_quote(sym, info) ==
  IF info.raises THEN [symbol |-> sym, price |-> <<>>]
  ELSE [symbol |-> sym,
        price |-> IF Truthy(info.close) THEN info.close ELSE <<>>,
        change |-> Get(info, "regularMarketChange", 0),
        change_percent |-> Get(info, "regularMarketChangePercent", 0),
        volume |-> Get(info, "volume", 0),
        market_cap |-> Get(info, "marketCap", 0)]

\* Lines 482-499: GET /api/stock/<symbol>.  get_stock_fundamentals reads the
\* same info and fails only when it raises.
get_stock_info(stock_data) ==
  IF "error" \in DOMAIN stock_data
    THEN [status |-> 400, body |-> [error |-> stock_data.error]]
    ELSE [status |-> 200, body |-> [stock_data |-> stock_data]]

\* Lines 582-590: GET /api/quotes?symbols=<sym>.
get_quotes(quote) == [status |-> 200, body |-> [quotes |-> quote]]

QuoteOps == {"get_stock_data", "fetch_quote"}

\* A request arrives at a route and the upstream is asked.
QRequest(op, sym, info) ==
  /\ qpc = "idle"
  /\ qpc' = "requested"
  /\ qreq' = [op |-> op, symbol |-> sym]
  /\ qinfo' = info
  /\ UNCHANGED <<qout, qroute>>
  /\ UNCHANGED <<cvars, hvars, svars>>

\* get_stock_data(symbol) or fetch_quote(s) returns; the route of fetch_quote
\* has upper-cased the symbol (line 584).
QReturn ==
  /\ qpc = "requested"
  /\ qpc' = "returned"
  /\ qout' = IF qreq.op = "get_stock_data"
               THEN <<get_stock_data(qreq.symbol, qinfo)>>
               ELSE <<fetch_quote(Upper(qreq.symbol), qinfo)>>
  /\ UNCHANGED <<qreq, qinfo, qroute>>
  /\ UNCHANGED <<cvars, hvars, svars>>

\* The route answers.
QRespond ==
  /\ qpc = "returned"
  /\ qpc' = "responded"
  /\ qroute' = IF qreq.op = "get_stock_data"
                 THEN get_stock_info(qout[1])
                 ELSE get_quotes(qout[1])
  /\ UNCHANGED <<qreq, qinfo, qout>>
  /\ UNCHANGED <<cvars, hvars, svars>>

\* Requests for one quote.
NextQuote ==
  \/ \E op \in QuoteOps : \E sym \in QuoteSymbols : \E info \in Payloads :
       QRequest(op, sym, info)
  \/ QReturn
  \/ QRespond

SpecQuote == Init /\ [][NextQuote]_vars

(***************************************************************************)
(* The prices of the synthetic series, lines 379-404.                      *)
(*                                                                         *)
(* base_price, high, low, open and close are in thousandths of a dollar,   *)
(* the fields of a point, rounded by round(x, 2), in cents.  The draws of  *)
(* change are those that take base_price * (1 + change) to a price of      *)
(* PriceGrid, a ladder of prices each within 5% of the next; the draws of  *)
(* the other calls of random.uniform are the two ends of their ranges,     *)
(* taken to the whole thousandth inside the range.  Every value here is    *)
(* one the code can draw.  The dates of the points are those of            *)
(* SyntheticSeries; the volume is not part of the model.                   *)
(***************************************************************************)
\* base_price = 150.0
BasePrice == 150000

\* max(..., 10)
PriceFloor == 10000

\* The number of rungs of PriceGrid above BasePrice.
MaxRise == 8

\* The number of rungs of PriceGrid below BasePrice: the last one is the
\* first under the floor.
MaxFall == 56

\* The prices below BasePrice, each a twenty-first less than the one before.
GridDown[k \in 0 .. MaxFall] ==
  IF k = 0 THEN BasePrice
  ELSE LET above == GridDown[k - 1] IN above - above \div 21

\* The prices above BasePrice, each a twentieth more than the one before.
GridUp[k \in 0 .. MaxRise] ==
  IF k = 0 THEN BasePrice
  ELSE LET below == GridUp[k - 1] IN below + below \div 20

PriceGrid ==
  {GridDown[k] : k \in 0 .. MaxFall} \cup {GridUp[k] : k \in 0 .. MaxRise}

\* Price g is base_price * (1 + change) for some change in [-0.05, 0.05]
\* other than 0: it is within a twentieth of base.
InChangeRange(base, g) ==
  g # base /\ 20 * (IF g > base THEN g - base ELSE base - g) <= base

\* base_price * (1 + change) for the draws of random.uniform(-0.05, 0.05)
\* that lead to another price of the grid.
ChangedPrices(base) == {g \in PriceGrid : InChangeRange(base, g)}

\* The position of a draw of random.uniform(0, w) in its range: 0 or w.
UnitDraws == {0, 1}

Max(a, b) == IF a >= b THEN a ELSE b

\* base_price * 0.02
DailyVolatility(base) == base \div 50

\* round(x, 2): thousandths to the nearest cent.
Round2(x) == (x + 5) \div 10

\* Lines 388-404: one point from the draws of one iteration.
SynthPoint(base, h, l, o, c) ==
  LET high == base + h * DailyVolatility(base)
      low == base - l * DailyVolatility(base)
      open_price == low + o * (high - low)
      close_price == low + c * (high - low)
  IN [open |-> Round2(open_price), high |-> Round2(high),
      low |-> Round2(low), close |-> Round2(close_price)]

\* Lines 378-380: the else branch is entered.
SynthEnter ==
  /\ spc = "idle"
  /\ spc' = "loop"
  /\ si' = 0
  /\ sbase' = BasePrice
  /\ spoint' = <<>>
  /\ UNCHANGED <<cvars, hvars, qvars>>

\* Lines 382-406: one iteration of the loop.
SynthStep(changed, h, l, o, c) ==
  /\ spc = "loop"
  /\ si < SyntheticPoints
  /\ InChangeRange(sbase, changed)
  /\ LET base == Max(changed, PriceFloor)
     IN /\ sbase' = base
        /\ spoint' = <<SynthPoint(base, h, l, o, c)>>
  /\ si' = si + 1
  /\ UNCHANGED spc
  /\ UNCHANGED <<cvars, hvars, qvars>>

\* Line 408: return historical_data.
SynthReturn ==
  /\ spc = "loop"
  /\ si = SyntheticPoints
  /\ spc' = "returned"
  /\ UNCHANGED <<si, sbase, spoint>>
  /\ UNCHANGED <<cvars, hvars, qvars>>

\* The generation of one synthetic series.
NextSynth ==
  \/ SynthEnter
  \/ \E changed \in ChangedPrices(sbase) : \E h, l, o, c \in UnitDraws :
       SynthStep(changed, h, l, o, c)
  \/ SynthReturn

SpecSynth == Init /\ [][NextSynth]_vars

(***************************************************************************)
(* Properties of the snapshot cache, checked under Spec.                   *)
(***************************************************************************)
\* The calls that are fetching the universe.
InFlight == {t \in Threads : pc[t] = "fetch"}

\* C1: single-flight refresh.  However many calls observe the cache Stale,
\* at most one pass over the universe is in flight at any time.
C1_SingleFlight == Cardinality(InFlight) <= 1

\* A snapshot is stored and is younger than CACHE_DURATION at time ts.
FreshAt(ts) == cache.data # <<>> /\ ts - cache.timestamp < CACHE_DURATION

\* C2: a fresh hit has no effect.  A call that tests the cache while a
\* snapshot is stored and its request time minus the stored timestamp is
\* below CACHE_DURATION goes on to return, fetching nothing and leaving the
\* cache as it is; and what it returns is the stored snapshot, the return
\* leaving the cache as it is too.
C2_FreshHitNoEffect ==
  [][\A t \in Threads :
       /\ (pc[t] = "check" /\ pc'[t] # "check" /\ FreshAt(ct[t]))
            => (pc'[t] = "ret_cached" /\ cache' = cache /\ movers'[t] = <<>>)
       /\ (pc[t] = "ret_cached" /\ pc'[t] # "ret_cached")
            => (ret'[t] = cache.data /\ cache' = cache
                  /\ pc'[t] \in {"route", "done"} /\ movers'[t] = <<>>)
       /\ pc'[t] = "fetch" => pc[t] = "fetch" \/ (pc[t] = "check" /\ ~FreshAt(ct[t]))]_vars

\* C2's case: a call has returned the stored snapshot from a fresh cache.
C2_Witness ==
  \E t \in Threads : pc[t] = "done" /\ hit[t] /\ ret[t] = cache.data /\ ret[t] # <<>>

\* C3: a Stale request ends Fresh.  The call that recomputes stores the time
\* of the store, so that when it returns the stored snapshot is younger than
\* CACHE_DURATION, however long the fetch took.
C3_StaleEndsFresh ==
  [][\A t \in Threads :
       (pc[t] = "return" /\ pc'[t] # "return") => FreshAt(now)]_vars

\* C4: atomic snapshot update.  In every state the data and the timestamp in
\* the cache were written by the same recomputation.
C4_AtomicSnapshot == writer.data = writer.timestamp

\* Two calls served from the cache with no snapshot stored between them.
SameSnapshotHits(a, b) ==
  /\ a # b
  /\ pc[a] = "done" /\ pc[b] = "done"
  /\ hit[a] /\ hit[b]
  /\ tag[a] = tag[b]

C6_TopNBound ==
  \A t \in Threads :
    (pc[t] = "done" /\ ret[t] # <<>>)
      => Len(ret[t][1].gainers) <= n[t] /\ Len(ret[t][1].losers) <= n[t]

(***************************************************************************)
(* Properties of one pass over the universe and its ranking, checked under *)
(* SpecRank in the state in which the pass has been ranked and is about to *)
(* be stored.                                                              *)
(***************************************************************************)
Ranked(t) == pc[t] = "store_data"

\* The exact change-percent of a is below that of b: with prev_close =
\* price - change, change_a / prev_a < change_b / prev_b.
NumLess(a, b) == a.change * (b.price - b.change) < b.change * (a.price - a.change)

SymbolsOf(s) == {s[j].symbol : j \in 1 .. Len(s)}

\* top holds c quotes of batch m, none twice.
IsBest(top, m, c) ==
  /\ Len(top) = c
  /\ \A j \in 1 .. Len(top) : \E l \in 1 .. Len(m) : top[j] = m[l]
  /\ Cardinality(SymbolsOf(top)) = Len(top)

\* C7: the ranker's result.  For a batch of k quotes and target n, gainers
\* holds the min(n, k) quotes of highest exact change-percent, descending,
\* and losers the min(n, k) of lowest exact change-percent, ascending.
C7_RankedByNumeric ==
  \A t \in Threads :
    Ranked(t) =>
      LET m == movers[t]
          g == result[t][1].gainers
          l == result[t][1].losers
          c == Min(n[t], Len(m))
      IN /\ IsBest(g, m, c)
         /\ IsBest(l, m, c)
         /\ \A j, h \in 1 .. Len(g) : j < h => ~NumLess(g[j], g[h])
         /\ \A j, h \in 1 .. Len(l) : j < h => ~NumLess(l[h], l[j])
         /\ \A j \in 1 .. Len(g) : \A x \in 1 .. Len(m) :
              m[x].symbol \notin SymbolsOf(g) => ~NumLess(g[j], m[x])
         /\ \A j \in 1 .. Len(l) : \A x \in 1 .. Len(m) :
              m[x].symbol \notin SymbolsOf(l) => ~NumLess(m[x], l[j])

Disjoint(r) == SymbolsOf(r.gainers) \cap SymbolsOf(r.losers) = {}

\* C8 as stated: no quote of a snapshot is both a gainer and a loser.
C8_Disjoint == \A t \in Threads : Ranked(t) => Disjoint(result[t][1])

\* C8 as amended: for a batch of k quotes and target n, no quote is both a
\* gainer and a loser exactly when the batch is empty, or k >= 2n and the
\* two-decimal change-percent of the n-th gainer is above that of the n-th
\* loser; so the lists overlap whenever 0 < k < 2n.
C8_DisjointIff ==
  \A t \in Threads :
    Ranked(t) =>
      LET r == result[t][1]
          k == Len(movers[t])
      IN Disjoint(r)
           <=> \/ k = 0
               \/ /\ k >= 2 * n[t]
                  /\ SortKey(r.gainers[n[t]]) > SortKey(r.losers[n[t]])

\* C8's case: a ranked batch of at least 2n quotes whose lists are disjoint.
C8_Witness ==
  \E t \in Threads :
    /\ Ranked(t)
    /\ Len(movers[t]) >= 2 * n[t]
    /\ result[t][1].gainers # <<>>
    /\ Disjoint(result[t][1])

\* The symbols of the universe in s, in the order of the universe up to
\* position upto.
RECURSIVE Kept(_, _)
Kept(s, upto) ==
  IF upto = 0 THEN <<>>
  ELSE IF universe[upto] \in s THEN Append(Kept(s, upto - 1), universe[upto])
       ELSE Kept(s, upto - 1)

HReturned == hpc \in {"returned", "responded"}

\* C10: the fallback triggers.  When the upstream response lacks the time
\* series field, when the request raises, and when it times out,
\* get_historical_data returns a series of exactly 126 points, not None.
C10_FallbackTriggers ==
  (HReturned /\ hresp.kind \in {"nokey", "error", "timeout"})
    => hdata # <<>> /\ Len(hdata[1]) = 126

(***************************************************************************)
(* Properties of get_historical_data, checked under SpecHist.              *)
(***************************************************************************)
\* The dates of a series are strictly increasing.
StrictlyIncreasing(series) ==
  \A j \in 1 .. Len(series) - 1 : series[j].date < series[j + 1].date

\* No point of a series is dated on a Saturday or a Sunday.
NoWeekend(series) == \A j \in 1 .. Len(series) : Weekday(series[j].date) < 5

\* C11: series shape.  Every series that get_historical_data returns, on the
\* real path for any upstream map of dates and on the synthetic path for any
\* current date, has exactly 126 points, in strictly increasing date order,
\* none of them dated on a Saturday or a Sunday.
C11_SeriesShape ==
  (HReturned /\ hdata # <<>>)
    => /\ Len(hdata[1]) = SeriesLength
       /\ StrictlyIncreasing(hdata[1])
       /\ NoWeekend(hdata[1])

\* The dates of D with fewer than SeriesLength later dates in D.
MostRecent(D) == {d \in D : Cardinality({e \in D : e > d}) < SeriesLength}

DatesOf(series) == {series[j].date : j \in 1 .. Len(series)}

\* A series with one point for each of the dates it was to be made of.
Complete(series) ==
  LET want == IF hresp.kind = "series" THEN MostRecent(hresp.series)
              ELSE DatesOf(SyntheticSeries(hreq.today))
  IN /\ DatesOf(series) = want
     /\ Len(series) = Cardinality(want)
     /\ hresp.kind # "series" => Len(series) = SyntheticPoints

\* An entry among the selected ones cannot be converted.
ConversionFails ==
  hresp.kind = "series" /\ MostRecent(hresp.series) \cap hresp.malformed # {}

\* C17: no partial series.  get_historical_data returns a complete series
\* (every selected upstream date converted to a point, or all 126 synthetic
\* points) or None; when the conversion of one selected entry fails it
\* returns None and the route answers with an error and no points.
C17_NoPartialSeries ==
  HReturned
    => /\ hdata = <<>> \/ Complete(hdata[1])
       /\ ConversionFails => hdata = <<>>
       /\ (hpc = "responded" /\ hdata = <<>>)
            => (hroute.status = 400 /\ hroute.historical_data = <<>>)

\* C17's case: the newest of several selected entries is malformed, the
\* older ones having been converted before it, and the route has answered.
C17_Witness ==
  /\ hpc = "responded"
  /\ ConversionFails
  /\ Cardinality(hresp.series) > 1
  /\ hresp.malformed = {Newest(hresp.series)}
  /\ hdata = <<>>
  /\ hroute.status = 400

\* C18: real-path selection.  When the upstream response has the time series
\* field with a set D of dates and a series is returned, the series consists
\* of exactly the min(126, |D|) most recent dates of D, one point per date,
\* in ascending date order.
C18_RealPathSelection ==
  (HReturned /\ hresp.kind = "series" /\ hdata # <<>>)
    => /\ Len(hdata[1]) = Min(SeriesLength, Cardinality(hresp.series))
       /\ DatesOf(hdata[1]) = MostRecent(hresp.series)
       /\ StrictlyIncreasing(hdata[1])

\* C18's case: a series returned from an upstream map of more than 126
\* dates, the oldest of which is left out.
C18_Witness ==
  /\ HReturned
  /\ hresp.kind = "series"
  /\ Cardinality(hresp.series) > SeriesLength
  /\ hdata # <<>>
  /\ Oldest(hresp.series) \notin DatesOf(hdata[1])

\* Some upstream time series makes the real path return the value data.
RealPathReturns(data) ==
  \E day \in Todays : \E answer \in Responses(day) :
    answer.kind = "series" /\ HistoricalData(answer, day) = data

\* C15: synthetic data carries provenance.  A series returned by the
\* fallback path can be told apart from a series returned by the real path:
\* what the fallback returns, and what the route answers with it, is never
\* something the real path returns and the route answers.
C15_Provenance ==
  (HReturned /\ hresp.kind = "nokey")
    => ~ RealPathReturns(hdata)

(***************************************************************************)
(* Properties of the ranking, checked under SpecRank.                      *)
(***************************************************************************)
\* The position of a symbol in the universe.
UniverseIndex(sym) == CHOOSE j \in 1 .. Len(universe) : universe[j] = sym

\* Quote a is listed before quote b: its sort key is the better one, or the
\* keys are equal and its symbol comes first in the universe.
ListedBefore(a, b, descending) ==
  \/ IF descending THEN SortKey(a) > SortKey(b) ELSE SortKey(a) < SortKey(b)
  \/ SortKey(a) = SortKey(b) /\ UniverseIndex(a.symbol) < UniverseIndex(b.symbol)

\* list is the first c quotes of batch m in the order ListedBefore.
FirstInOrder(list, m, c, descending) ==
  /\ Len(list) = c
  /\ \A j \in 1 .. Len(list) :
       /\ \E x \in 1 .. Len(m) : m[x] = list[j]
       /\ Cardinality({x \in 1 .. Len(m) : ListedBefore(m[x], list[j], descending)})
            = j - 1

\* C16: deterministic tie-break.  Quotes with equal change-percent sort key
\* are listed in universe order in gainers and in losers, so each list is
\* the one determined by the set of fetched quotes: the quote at position j
\* is the one with j - 1 quotes before it by key, then by universe order.
C16_TieBreak ==
  \A t \in Threads :
    Ranked(t) =>
      LET m == movers[t]
          c == Min(n[t], Len(m))
      IN /\ FirstInOrder(result[t][1].gainers, m, c, TRUE)
         /\ FirstInOrder(result[t][1].losers, m, c, FALSE)

\* C16's case: three quotes of which two tie, with different prices, the
\* tied ones being listed in gainers and in losers.
C16_Witness ==
  \E t \in Threads :
    /\ Ranked(t)
    /\ Len(movers[t]) = 3
    /\ LET g == result[t][1].gainers
           l == result[t][1].losers
       IN /\ Len(g) = 2 /\ Len(l) = 2
          /\ SortKey(g[1]) = SortKey(g[2]) /\ g[1].price # g[2].price
          /\ SortKey(l[1]) = SortKey(l[2])

(***************************************************************************)
(* Properties of the cache's timestamp and of an empty snapshot.           *)
(***************************************************************************)
\* C19: the stored cache timestamp never decreases.  Across any interleaving
\* of concurrent get_market_movers calls, each write to the timestamp of
\* the cache stores a value at least as large as the one it replaces.
C19_TimestampMonotonic ==
  [][cache'.timestamp >= cache.timestamp]_vars

\* The result of a recomputation in which every symbol of the universe
\* failed: {"gainers": [], "losers": []}.
EmptySnapshot == [gainers |-> <<>>, losers |-> <<>>]

\* The cache holds the empty snapshot, data and timestamp both stored.
EmptyCached == cache.data = <<EmptySnapshot>> /\ writer.data = writer.timestamp

\* C20: a total-failure result is cached like any other.  With the empty
\* snapshot stored, a call whose request time is less than CACHE_DURATION
\* after the stored timestamp fetches nothing, leaves the cache alone and
\* returns the empty snapshot; a call at age CACHE_DURATION or more goes on
\* to fetch the universe.
C20_EmptySnapshotCached ==
  [][\A t \in Threads :
       /\ (pc[t] = "check" /\ pc'[t] # "check" /\ EmptyCached)
            => IF ct[t] - cache.timestamp < CACHE_DURATION
                 THEN pc'[t] = "ret_cached" /\ cache' = cache /\ movers'[t] = <<>>
                 ELSE pc'[t] = "fetch" /\ i'[t] = 1
       /\ (pc[t] = "ret_cached" /\ pc'[t] # "ret_cached" /\ EmptyCached)
            => /\ ret'[t] = <<EmptySnapshot>>
               /\ cache' = cache
               /\ pc'[t] \in {"route", "done"}]_vars

\* C20's case: a call has been served the empty snapshot from the cache.
C20_Witness ==
  \E t \in Threads :
    /\ pc[t] = "done"
    /\ hit[t]
    /\ ret[t] = <<EmptySnapshot>>
    /\ EmptyCached

(***************************************************************************)
(* Properties of the single-quote operations, checked under SpecQuote.     *)
(***************************************************************************)
QReturned == qpc \in {"returned", "responded"}

\* The upstream answered and supplied no field at all.
NoData(info) == ~info.raises /\ \A f \in InfoFields : info[f] = <<>>

\* C13: an unknown symbol yields a distinguishable error.  When the upstream
\* quote source returns no usable field for a symbol, get_stock_data and
\* fetch_quote return an error-tagged result and their routes do not answer
\* with a successful quote.
C13_UnknownSymbolError ==
  (QReturned /\ NoData(qinfo))
    => /\ "error" \in DOMAIN qout[1]
       /\ qpc = "responded" => qroute.status # 200

\* The upstream field each field of a quote is copied from.
SourceField ==
  [get_stock_data |->
     [price |-> "currentPrice", change |-> "regularMarketChange",
      change_percent |-> "regularMarketChangePercent", volume |-> "volume"],
   fetch_quote |->
     [price |-> "close", change |-> "regularMarketChange",
      change_percent |-> "regularMarketChangePercent", volume |-> "volume",
      market_cap |-> "marketCap"]]

\* C14: absent fields stay unknown.  For every upstream payload, a field
\* the upstream did not supply (price, change, change-percent, volume,
\* market cap) is None in the quote that get_stock_data or fetch_quote
\* returns, never a number.
C14_AbsentStaysUnknown ==
  QReturned =>
    \A f \in DOMAIN SourceField[qreq.op] :
      (f \in DOMAIN qout[1] /\ qinfo[SourceField[qreq.op][f]] = <<>>)
        => qout[1][f] = <<>>

(***************************************************************************)
(* Properties of the synthetic prices, checked under SpecSynth.            *)
(***************************************************************************)
\* 10.0 dollars in cents.
MinClose == 1000

\* C12: synthetic price bounds.  Every point of a synthetic series, for
\* every sequence of draws, has low <= open <= high, low <= close <= high
\* and close >= 10.0.
C12_SyntheticPriceBounds ==
  spoint # <<>> =>
    LET p == spoint[1]
    IN /\ p.low <= p.open /\ p.open <= p.high
       /\ p.low <= p.close /\ p.close <= p.high
       /\ p.close >= MinClose

(***************************************************************************)
(* The span of the synthetic series, checked under SpecHist.               *)
(***************************************************************************)
\* get_historical_data has returned from its else branch.
SyntheticReturned == HReturned /\ hresp.kind = "nokey" /\ hdata # <<>>

\* C21: a synthetic series never reaches into the future.  For every current
\* date, whatever its weekday, each of the 126 generated points is dated no
\* earlier than 180 calendar days before the current date and no later than
\* the current date.
C21_SyntheticSpan ==
  SyntheticReturned
    => /\ Len(hdata[1]) = SyntheticPoints
       /\ \A j \in 1 .. Len(hdata[1]) :
            /\ hreq.today - LookbackDays <= hdata[1][j].date
            /\ hdata[1][j].date <= hreq.today

\* C21's case: the day 180 days back is a Saturday, so the loop starts two
\* days later, and the last of the 126 points is the latest a series gets:
\* three days before the current date.
C21_Witness ==
  /\ SyntheticReturned
  /\ Weekday(hreq.today - LookbackDays) = 5
  /\ hdata[1][1].date = hreq.today - LookbackDays + 2
  /\ hdata[1][Len(hdata[1])].date = hreq.today - 3

====
